---- MODULE Spec2Model ----
(***************************************************************************)
(* Moeller-Trumbore triangle intersectors of                               *)
(* kernels/xeon/geometry/triangle_intersector_moeller.h.                   *)
(*                                                                         *)
(* Arithmetic is exact: coordinates are integers, and the quotients        *)
(* u = U*rcp(absDen), v = V*rcp(absDen), t = T*rcp(absDen) are rationals   *)
(* <<numerator, denominator>> in lowest terms.  The XOR with the sign mask *)
(* of den (x ^ signmsk(den)) negates x exactly when den is negative.       *)
(***************************************************************************)
EXTENDS Integers, Sequences, FiniteSets, TLC

VARIABLES cfg, tri, ray, pc, op, valid, sel, m, i_tri, valid0, ret, ray0, commits, fcalls, lookups

vars == <<cfg, tri, ray, pc, op, valid, sel, m, i_tri, valid0, ret, ray0, commits, fcalls, lookups>>

----------------------------------------------------------------------------
\* Widths of the instantiation and bounds of the inputs

\* triangle lanes of a batch (TriangleN::M)
M == 3

\* ray lanes of a packet (RayK::K)
K == 2

\* triangles are placed at depths 0..MaxZ along the ray axis
MaxZ == 3

\* ray times are 0..MaxTime (1 is the end of the shutter interval; no clamping)
MaxTime == 2

TriLanes == 0 .. (M - 1)

RayLanes == 0 .. (K - 1)

----------------------------------------------------------------------------
\* Vectors and rationals

Vec(x, y, z) == <<x, y, z>>

Zero3 == Vec(0, 0, 0)

VAdd(a, b) == Vec(a[1] + b[1], a[2] + b[2], a[3] + b[3])

VSub(a, b) == Vec(a[1] - b[1], a[2] - b[2], a[3] - b[3])

VScale(s, a) == Vec(s * a[1], s * a[2], s * a[3])

dot(a, b) == a[1] * b[1] + a[2] * b[2] + a[3] * b[3]

cross(a, b) == Vec(a[2] * b[3] - a[3] * b[2], a[3] * b[1] - a[1] * b[3], a[1] * b[2] - a[2] * b[1])

abs(x) == IF x < 0 THEN -x ELSE x

\* x ^ signmsk(den): flips the sign of x when the sign bit of den is set
XorSign(x, den) == IF den < 0 THEN -x ELSE x

RECURSIVE Gcd(_, _)
Gcd(a, b) == IF b = 0 THEN a ELSE Gcd(b, a % b)

\* n/d in lowest terms, d > 0
Rat(n, d) == LET g == Gcd(abs(n), d) IN <<n \div g, d \div g>>

RatInt(n) == <<n, 1>>

RatLT(a, b) == a[1] * b[2] < b[1] * a[2]

RatLE(a, b) == a[1] * b[2] <= b[1] * a[2]

----------------------------------------------------------------------------
\* Scene: geometry lookup by geomID (mask, presence and verdict of the filters)

Geometry(mask, hasI, accI, hasO, accO) ==
    [mask |-> mask, hasIntersectionFilter |-> hasI, intersectionAccepts |-> accI,
     hasOcclusionFilter |-> hasO, occlusionAccepts |-> accO]

Scene == [g \in 0 .. 3 |->
            CASE g = 0 -> Geometry(1, FALSE, TRUE, FALSE, TRUE)
              [] g = 1 -> Geometry(1, TRUE, FALSE, TRUE, FALSE)
              [] g = 2 -> Geometry(1, TRUE, TRUE, TRUE, TRUE)
              [] g = 3 -> Geometry(2, TRUE, TRUE, TRUE, TRUE)]

GeomIDs == DOMAIN Scene

\* bitwise AND of two masks over bits 0 and 1, compared with 0
MaskDisjoint(a, b) == ~(\E bit \in {1, 2} : (a \div bit) % 2 = 1 /\ (b \div bit) % 2 = 1)

----------------------------------------------------------------------------
\* Triangle batches

\* TriangleN stores v0 and the precomputed e1 = v0-v1, e2 = v2-v0, Ng = e1 x e2
EdgesOf(v0, v1, v2) ==
    LET e1 == VSub(v0, v1)
        e2 == VSub(v2, v0)
    IN  [v0 |-> v0, e1 |-> e1, e2 |-> e2, Ng |-> cross(e1, e2)]

\* tri.v0, tri.e1, tri.e2, tri.Ng of a TriangleN batch
StoredEdges(t) == [l \in TriLanes |-> EdgesOf(t[l].v0, t[l].v1, t[l].v2)]

\* v + time*dv of one lane of a TriangleNMblur batch
Interpolate(p, time) ==
    [v0 |-> VAdd(p.v0, VScale(time, p.dv0)),
     v1 |-> VAdd(p.v1, VScale(time, p.dv1)),
     v2 |-> VAdd(p.v2, VScale(time, p.dv2))]

\* moeller_trumbore_intersect1 / moeller_trumbore_intersectK on vertices
VertexOverload(v0, v1, v2) ==
    LET e1 == VSub(v0, v1)
        e2 == VSub(v2, v0)
        Ng == cross(e1, e2)
    IN  [v0 |-> v0, e1 |-> e1, e2 |-> e2, Ng |-> Ng]

\* the triangles a motion blur adapter hands to the algorithm for ray time `time`
MblurEdges(t, time) ==
    [l \in TriLanes |->
        LET q == Interpolate(t[l], time)
        IN  VertexOverload(q.v0, q.v1, q.v2)]

----------------------------------------------------------------------------
\* The Moeller-Trumbore terms of one ray against one triangle

MT(O, D, e) ==
    LET C == VSub(e.v0, O)
        R == cross(D, C)
        den == dot(e.Ng, D)
    IN  [den |-> den,
         absDen |-> abs(den),
         U |-> XorSign(dot(R, e.e2), den),
         V |-> XorSign(dot(R, e.e1), den),
         T |-> XorSign(dot(e.Ng, C), den)]

\* T > absDen*x, T >= absDen*x, T < absDen*x, absDen*x >= T for a rational x
TGreater(mt, x) == mt.T * x[2] > mt.absDen * x[1]

TGreaterEq(mt, x) == mt.T * x[2] >= mt.absDen * x[1]

TLess(mt, x) == mt.T * x[2] < mt.absDen * x[1]

TLessEq(mt, x) == mt.absDen * x[1] >= mt.T * x[2]

\* faulty variant: the test against zero is lost where culling is compiled out
DenTest_CullOnly(c, mt) == IF c.BACKFACE_CULLING THEN mt.den > 0 ELSE TRUE

\* perform backface culling: den > 0 with RTCORE_BACKFACE_CULLING, den != 0 without
DenTest(c, mt) == IF c.BACKFACE_CULLING THEN mt.den > 0 ELSE mt.den # 0

\* lane validity of moeller_trumbore_intersect1
Valid1(c, mt, tnear, tfar) ==
    /\ DenTest(c, mt) /\ mt.U >= 0 /\ mt.V >= 0 /\ mt.U + mt.V <= mt.absDen
    /\ TGreater(mt, tnear) /\ TLess(mt, tfar)

\* faulty variant: the depth test no longer compares against tfar
ValidK_NoFar(c, mt, tnear, tfar) ==
    /\ mt.U >= 0
    /\ mt.V >= 0
    /\ mt.absDen - mt.U - mt.V >= 0
    /\ TGreaterEq(mt, tnear)
    /\ DenTest(c, mt)

\* lane validity of moeller_trumbore_intersectK
ValidK(c, mt, tnear, tfar) ==
    /\ mt.U >= 0
    /\ mt.V >= 0
    /\ mt.absDen - mt.U - mt.V >= 0
    /\ TGreaterEq(mt, tnear) /\ TLessEq(mt, tfar)
    /\ DenTest(c, mt)

\* faulty variant: the depth test admits t = tfar
ValidLaneIntersect_Closed(c, mt, tnear, tfar) ==
    /\ DenTest(c, mt) /\ mt.U >= 0 /\ mt.V >= 0 /\ mt.U + mt.V <= mt.absDen
    /\ TGreater(mt, tnear) /\ TLessEq(mt, tfar)

\* lane validity of triangle_intersect_moeller_trumbore_k
ValidLaneIntersect(c, mt, tnear, tfar) ==
    /\ DenTest(c, mt) /\ mt.U >= 0 /\ mt.V >= 0 /\ mt.U + mt.V <= mt.absDen
    /\ TGreater(mt, tnear) /\ TLess(mt, tfar)

\* lane validity of triangle_occluded_moeller_trumbore_k
ValidLaneOccluded(c, mt, tnear, tfar) ==
    /\ mt.U >= 0 /\ mt.V >= 0 /\ mt.absDen - mt.U - mt.V >= 0
    /\ TGreaterEq(mt, tnear) /\ TLessEq(mt, tfar)
    /\ DenTest(c, mt)

\* u, v, t = U, V, T * rcp(absDen), with the triangle's Ng; lanes with
\* absDen = 0 are never valid and their quotients are never read
HitOf(mt, Ng) ==
    IF mt.absDen = 0
    THEN [u |-> <<0, 0>>, v |-> <<0, 0>>, t |-> <<0, 0>>, Ng |-> Ng]
    ELSE [u |-> Rat(mt.U, mt.absDen), v |-> Rat(mt.V, mt.absDen),
          t |-> Rat(mt.T, mt.absDen), Ng |-> Ng]

\* select_min(valid, t): the valid lane of least t, the lowest such lane on a tie
select_min(V, h) ==
    CHOOSE i \in V : \A j \in V : RatLT(h[i].t, h[j].t) \/ (h[i].t = h[j].t /\ i <= j)

\* faulty variant: the scan starts from the highest set bit
bsf_Highest(mm) == CHOOSE i \in mm : \A j \in mm : i >= j

\* faulty variant: the bit of the lane just examined stays set
btc_Keeps(mm, i) == mm

\* __btc(m,i) and valid[i] = 0: the lane just examined leaves the candidate set
btc(mm, i) == mm \ {i}

\* __bsf(m): the lowest set bit
bsf(mm) == CHOOSE i \in mm : \A j \in mm : i <= j

----------------------------------------------------------------------------
\* Mask and filter policy, and the hit record of a ray

\* the mask/filter loop is compiled under RTCORE_INTERSECTION_FILTER || RTCORE_RAY_MASK
LoopCompiled(c) == c.INTERSECTION_FILTER \/ c.RAY_MASK

\* faulty variant: the filter is consulted ahead of the mask test, so that the
\* mask clears only candidates of geometries without a filter
MaskFails_AfterFilter(c, g, rmask) ==
    /\ c.RAY_MASK
    /\ MaskDisjoint(Scene[g].mask, rmask)
    /\ ~(/\ c.INTERSECTION_FILTER /\ c.enableIntersectionFilter
          /\ (Scene[g].hasIntersectionFilter \/ Scene[g].hasOcclusionFilter))

\* (geometry->mask & ray.mask[k]) == 0 under RTCORE_RAY_MASK
MaskFails(c, g, rmask) == c.RAY_MASK /\ MaskDisjoint(Scene[g].mask, rmask)

\* enableIntersectionFilter && geometry->hasIntersectionFilter() under RTCORE_INTERSECTION_FILTER
ConsultsIntersectionFilter(c, g) ==
    c.INTERSECTION_FILTER /\ c.enableIntersectionFilter /\ Scene[g].hasIntersectionFilter

\* enableIntersectionFilter && geometry->hasOcclusionFilter() under RTCORE_INTERSECTION_FILTER
ConsultsOcclusionFilter(c, g) ==
    c.INTERSECTION_FILTER /\ c.enableIntersectionFilter /\ Scene[g].hasOcclusionFilter

\* the hit fields written on acceptance
Commit(r, h, g, p) ==
    [r EXCEPT !.u = h.u, !.v = h.v, !.tfar = h.t, !.Ng = h.Ng, !.geomID = g, !.primID = p]

\* runIntersectionFilter: the filter's verdict; on accept the hit is in the ray
runIntersectionFilter(r, h, g, p) ==
    IF Scene[g].intersectionAccepts
    THEN [accept |-> TRUE, ray |-> Commit(r, h, g, p)]
    ELSE [accept |-> FALSE, ray |-> r]

\* runOcclusionFilter: the filter's verdict; occlusion has no hit fields to write
runOcclusionFilter(r, h, g, p) == Scene[g].occlusionAccepts

HitFields(r) == <<r.u, r.v, r.tfar, r.Ng, r.geomID, r.primID>>

\* the hits of one ray against every lane of a batch
HitsOf(r, E) == [l \in TriLanes |-> HitOf(MT(r.org, r.dir, E[l]), E[l].Ng)]

----------------------------------------------------------------------------
\* Epilogs of the single ray and packet algorithms (intersector_epilog.h)

\* Intersect1Epilog: nearest candidate first, rejected candidates are dropped
\* and the next nearest is selected; the accepted one is committed
RECURSIVE Intersect1Epilog(_, _, _, _, _, _)
Intersect1Epilog(c, k, r, V, h, t) ==
    IF V = {}
    THEN [ret |-> FALSE, ray |-> r, fc |-> <<>>, lk |-> <<>>, cm |-> <<>>]
    ELSE LET i == select_min(V, h)
             g == t[i].geomID
             look == IF LoopCompiled(c) THEN <<[k |-> k, i |-> i]>> ELSE <<>>
             rest == Intersect1Epilog(c, k, r, V \ {i}, h, t)
         IN  IF MaskFails(c, g, r.mask)
             THEN [rest EXCEPT !.lk = look \o @]
             ELSE IF ConsultsIntersectionFilter(c, g)
             THEN LET f == runIntersectionFilter(r, h[i], g, t[i].primID)
                      call == <<[kind |-> "intersection", k |-> k, i |-> i]>>
                  IN  IF f.accept
                      THEN [ret |-> TRUE, ray |-> f.ray, fc |-> call, lk |-> look,
                            cm |-> <<[k |-> k, i |-> i, by |-> "filter"]>>]
                      ELSE [rest EXCEPT !.lk = look \o @, !.fc = call \o @]
             ELSE [ret |-> TRUE, ray |-> Commit(r, h[i], g, t[i].primID), fc |-> <<>>,
                   lk |-> look, cm |-> <<[k |-> k, i |-> i, by |-> "epilog"]>>]

\* Occluded1Epilog: any accepted candidate suffices, lanes are scanned from the lowest
RECURSIVE Occluded1Epilog(_, _, _, _, _, _)
Occluded1Epilog(c, k, r, V, h, t) ==
    IF V = {}
    THEN [ret |-> FALSE, fc |-> <<>>, lk |-> <<>>]
    ELSE LET i == bsf(V)
             g == t[i].geomID
             look == IF LoopCompiled(c) THEN <<[k |-> k, i |-> i]>> ELSE <<>>
             rest == Occluded1Epilog(c, k, r, V \ {i}, h, t)
         IN  IF MaskFails(c, g, r.mask)
             THEN [rest EXCEPT !.lk = look \o @]
             ELSE IF ConsultsOcclusionFilter(c, g)
             THEN LET call == <<[kind |-> "occlusion", k |-> k, i |-> i]>>
                  IN  IF runOcclusionFilter(r, h[i], g, t[i].primID)
                      THEN [ret |-> TRUE, fc |-> call, lk |-> look]
                      ELSE [rest EXCEPT !.lk = look \o @, !.fc = call \o @]
             ELSE [ret |-> TRUE, fc |-> <<>>, lk |-> look]

\* the ray lanes of S in ascending order
RECURSIVE LanesInOrder(_)
LanesInOrder(S) ==
    IF S = {} THEN <<>>
    ELSE LET k == CHOOSE x \in S : \A y \in S : x <= y
         IN  <<k>> \o LanesInOrder(S \ {k})

\* the ray lanes of V that triangle i of the batch is accepted for
AcceptedI(c, rays, V, i, t) ==
    {k \in V : /\ ~MaskFails(c, t[i].geomID, rays[k].mask)
               /\ (ConsultsIntersectionFilter(c, t[i].geomID)
                     => Scene[t[i].geomID].intersectionAccepts)}

AcceptedO(c, rays, V, i, t) ==
    {k \in V : /\ ~MaskFails(c, t[i].geomID, rays[k].mask)
               /\ (ConsultsOcclusionFilter(c, t[i].geomID)
                     => Scene[t[i].geomID].occlusionAccepts)}

\* the ray lanes of V a filter is called for: those that pass the mask test
Filtered(c, rays, V, i, t, consults) ==
    IF consults THEN {k \in V : ~MaskFails(c, t[i].geomID, rays[k].mask)} ELSE {}

\* IntersectKEpilog: triangle i against the ray lanes V; hk[k] is the hit of lane k
IntersectKEpilog(c, rays, V, hk, i, t) ==
    LET g == t[i].geomID
        acc == AcceptedI(c, rays, V, i, t)
        fl == Filtered(c, rays, V, i, t, ConsultsIntersectionFilter(c, g))
        by == IF ConsultsIntersectionFilter(c, g) THEN "filter" ELSE "epilog"
        ord == LanesInOrder(acc)
        ford == LanesInOrder(fl)
    IN  [ret |-> acc,
         ray |-> [k \in RayLanes |->
                    IF k \in acc THEN Commit(rays[k], hk[k], g, t[i].primID) ELSE rays[k]],
         fc |-> [n \in 1 .. Len(ford) |-> [kind |-> "intersection", k |-> ford[n], i |-> i]],
         lk |-> IF LoopCompiled(c) THEN <<[k |-> -1, i |-> i]>> ELSE <<>>,
         cm |-> [n \in 1 .. Len(ord) |-> [k |-> ord[n], i |-> i, by |-> by]]]

\* OccludedKEpilog: the ray lanes of V occluded by triangle i; the caller's
\* valid0 loses them
OccludedKEpilog(c, rays, V, hk, i, t) ==
    LET g == t[i].geomID
        acc == AcceptedO(c, rays, V, i, t)
        fl == Filtered(c, rays, V, i, t, ConsultsOcclusionFilter(c, g))
        ford == LanesInOrder(fl)
    IN  [ret |-> acc,
         fc |-> [n \in 1 .. Len(ford) |-> [kind |-> "occlusion", k |-> ford[n], i |-> i]],
         lk |-> IF LoopCompiled(c) THEN <<[k |-> -1, i |-> i]>> ELSE <<>>]

----------------------------------------------------------------------------
\* Inputs: build configurations, rays and triangle batches

Config(cull, filter, enable, mask) ==
    [BACKFACE_CULLING |-> cull, INTERSECTION_FILTER |-> filter,
     enableIntersectionFilter |-> enable, RAY_MASK |-> mask]

\* enableIntersectionFilter matters only where the filter is compiled in
Configs ==
    {Config(cull, f[1], f[2], mask) :
        cull \in BOOLEAN, f \in {<<FALSE, TRUE>>, <<TRUE, FALSE>>, <<TRUE, TRUE>>},
        mask \in BOOLEAN}

\* a ray from the origin along +z with no hit yet
NewRay(d, tnear, tfar, time, mask) ==
    [org |-> Zero3, dir |-> Vec(0, 0, d), tnear |-> tnear, tfar |-> tfar, time |-> time,
     mask |-> mask, u |-> <<0, 1>>, v |-> <<0, 1>>, Ng |-> Zero3, geomID |-> -1,
     primID |-> -1]

\* every depth 0..MaxZ lies strictly inside the wide interval
WideNear == Rat(-1, 1)

WideFar == Rat(MaxZ + 1, 1)

Kinds == {"ccw", "cw", "off", "point", "edge"}

\* base vertices of a triangle of the given kind at depth z: "ccw" and "cw"
\* cover the ray axis with Ng along +z and -z, "off" lies beside the axis,
\* "point" has zero area, "edge" lies in a plane that contains the axis
Shape(kind, z) ==
    CASE kind = "ccw" -> <<Vec(-1, -1, z), Vec(-1, 2, z), Vec(2, -1, z)>>
      [] kind = "cw" -> <<Vec(-1, -1, z), Vec(2, -1, z), Vec(-1, 2, z)>>
      [] kind = "off" -> <<Vec(1, 1, z), Vec(1, 4, z), Vec(4, 1, z)>>
      [] kind = "point" -> <<Vec(0, 0, z), Vec(0, 0, z), Vec(0, 0, z)>>
      [] kind = "edge" -> <<Vec(0, -1, z), Vec(0, 2, z), Vec(0, -1, z + 1)>>

Motions == {"still", "recede", "flip"}

\* vertex velocities: none, a translation along the axis, or v1 and v2
\* moving to each other's place (the facing flips at time 1)
Velocity(motion, s) ==
    CASE motion = "still" -> <<Zero3, Zero3, Zero3>>
      [] motion = "recede" -> <<Vec(0, 0, 1), Vec(0, 0, 1), Vec(0, 0, 1)>>
      [] motion = "flip" -> <<Zero3, VSub(s[3], s[2]), VSub(s[2], s[3])>>

Prim(l, kind, z, motion, g, ok) ==
    LET s == Shape(kind, z)
        d == Velocity(motion, s)
    IN  [v0 |-> s[1], v1 |-> s[2], v2 |-> s[3], dv0 |-> d[1], dv1 |-> d[2], dv2 |-> d[3],
         geomID |-> g, primID |-> 100 + l, valid |-> ok]

\* policy inputs: every lane is a candidate, geometries and depths vary
PolicyBatches ==
    {[mblur |-> FALSE, lanes |-> [l \in TriLanes |-> Prim(l, "ccw", z[l], "still", g[l], TRUE)]] :
        z \in [TriLanes -> 1 .. MaxZ], g \in [TriLanes -> GeomIDs]}

\* geometry inputs: one lane of any shape in front of a uniform background
GeomBatches(mblur) ==
    {[mblur |-> mblur,
      lanes |-> [l \in TriLanes |->
                   IF l = j THEN Prim(l, kind, z, motion, 0, TRUE)
                   ELSE Prim(l, bg, MaxZ, "still", 0, TRUE)]] :
        j \in TriLanes, kind \in Kinds, z \in 0 .. MaxZ,
        motion \in (IF mblur THEN Motions ELSE {"still"}),
        bg \in (IF mblur THEN {"off"} ELSE {"off", "ccw"})}

\* partly populated batches: any lane may be marked invalid
ValidityBatches ==
    {[mblur |-> FALSE, lanes |-> [l \in TriLanes |-> Prim(l, "ccw", 1 + (l % 2), "still", g[l], ok[l])]] :
        g \in [TriLanes -> {0, 1}], ok \in [TriLanes -> BOOLEAN]}

InitPolicy ==
    /\ cfg \in {c \in Configs : ~c.BACKFACE_CULLING /\ c.enableIntersectionFilter}
    /\ tri \in PolicyBatches
    /\ ray = [k \in RayLanes |-> NewRay(1, WideNear, WideFar, 0, IF k = 0 THEN 1 ELSE 3)]

InitGeom ==
    /\ cfg \in {c \in Configs : ~c.INTERSECTION_FILTER /\ ~c.RAY_MASK}
    /\ \E d \in {1, 2}, narrow \in BOOLEAN :
          ray = [k \in RayLanes |->
                   IF k = 0 /\ narrow THEN NewRay(d, Rat(1, d), Rat(2, d), 0, 1)
                   ELSE NewRay(IF k = 0 THEN d ELSE 1, WideNear, WideFar, 0, 1)]
    /\ tri \in GeomBatches(FALSE)

InitMblur ==
    /\ cfg \in {c \in Configs : ~c.INTERSECTION_FILTER /\ ~c.RAY_MASK}
    /\ \E time \in 0 .. MaxTime, narrow \in BOOLEAN :
          ray = [k \in RayLanes |->
                   IF k = 0
                   THEN NewRay(1, IF narrow THEN Rat(1, 1) ELSE WideNear,
                               IF narrow THEN Rat(2, 1) ELSE WideFar, time, 1)
                   ELSE NewRay(1, WideNear, WideFar, 1, 1)]
    /\ tri \in GeomBatches(TRUE)

InitValidity ==
    /\ cfg \in {c \in Configs : ~c.BACKFACE_CULLING
                                 /\ (c.enableIntersectionFilter => (c.INTERSECTION_FILTER <=> c.RAY_MASK))}
    /\ tri \in ValidityBatches
    /\ ray = [k \in RayLanes |-> NewRay(1, WideNear, WideFar, 0, 1)]

\* what a call returned
RetNone == [kind |-> "none", b |-> FALSE, mask |-> {}]

RetVoid == [kind |-> "void", b |-> FALSE, mask |-> {}]

RetBool(b) == [kind |-> "bool", b |-> b, mask |-> {}]

RetMask(S) == [kind |-> "mask", b |-> FALSE, mask |-> S]

RetIllFormed == [kind |-> "ill_formed", b |-> FALSE, mask |-> {}]

Init ==
    /\ InitPolicy \/ InitGeom \/ InitMblur \/ InitValidity
    /\ pc = "idle"
    /\ op = [name |-> "none", k |-> -1, valid_i |-> {}]
    /\ valid = {}
    /\ sel = -1
    /\ m = {}
    /\ i_tri = 0
    /\ valid0 = {}
    /\ ret = RetNone
    /\ ray0 = ray
    /\ commits = <<>>
    /\ fcalls = <<>>
    /\ lookups = <<>>

----------------------------------------------------------------------------
\* Single ray algorithm and its adapters

\* moeller_trumbore_intersect1 with the intersection epilog
moeller_trumbore_intersect1(c, k, r, E, t) ==
    LET V == {l \in TriLanes : Valid1(c, MT(r.org, r.dir, E[l]), r.tnear, r.tfar)}
    IN  Intersect1Epilog(c, k, r, V, HitsOf(r, E), t)

\* moeller_trumbore_intersect1 with the occlusion epilog
moeller_trumbore_occluded1(c, k, r, E, t) ==
    LET V == {l \in TriLanes : Valid1(c, MT(r.org, r.dir, E[l]), r.tnear, r.tfar)}
    IN  Occluded1Epilog(c, k, r, V, HitsOf(r, E), t)

Enter(name, k, vi) ==
    /\ pc = "idle"
    /\ op' = [name |-> name, k |-> k, valid_i |-> vi]
    /\ ray0' = ray

Intersect1Body(k, E) ==
    LET res == moeller_trumbore_intersect1(cfg, k, ray[k], E, tri.lanes)
    IN  /\ ray' = [ray EXCEPT ![k] = res.ray]
        /\ fcalls' = fcalls \o res.fc
        /\ lookups' = lookups \o res.lk
        /\ commits' = commits \o res.cm
        /\ ret' = RetVoid
        /\ pc' = "done"
        /\ UNCHANGED <<cfg, tri, valid, sel, m, i_tri, valid0>>

Occluded1Body(k, E) ==
    LET res == moeller_trumbore_occluded1(cfg, k, ray[k], E, tri.lanes)
    IN  /\ fcalls' = fcalls \o res.fc
        /\ lookups' = lookups \o res.lk
        /\ ret' = RetBool(res.ret)
        /\ pc' = "done"
        /\ UNCHANGED <<cfg, tri, ray, valid, sel, m, i_tri, valid0, commits>>

\* TriangleNIntersector1MoellerTrumbore::intersect
Intersect1(k) ==
    /\ ~tri.mblur
    /\ Enter("intersect1", k, {})
    /\ Intersect1Body(k, StoredEdges(tri.lanes))

\* TriangleNIntersector1MoellerTrumbore::occluded
Occluded1(k) ==
    /\ ~tri.mblur
    /\ Enter("occluded1", k, {})
    /\ Occluded1Body(k, StoredEdges(tri.lanes))

\* TriangleNMblurIntersector1MoellerTrumbore::intersect
MblurIntersect1(k) ==
    /\ tri.mblur
    /\ Enter("mblur_intersect1", k, {})
    /\ Intersect1Body(k, MblurEdges(tri.lanes, ray[k].time))

\* TriangleNMblurIntersector1MoellerTrumbore::occluded
MblurOccluded1(k) ==
    /\ tri.mblur
    /\ Enter("mblur_occluded1", k, {})
    /\ Occluded1Body(k, MblurEdges(tri.lanes, ray[k].time))

\* what the pairs adapter hands to the algorithm: it passes the stored tri.v0,
\* tri.e1, tri.e2 to the vertex overload, which takes them as v0, v1, v2
PairsEdges(t) ==
    [l \in TriLanes |->
        LET E == StoredEdges(t)[l]
        IN  VertexOverload(E.v0, E.e1, E.e2)]

\* TrianglePairsNIntersector1MoellerTrumbore::intersect
PairsIntersect1(k) ==
    /\ ~tri.mblur
    /\ Enter("pairs_intersect1", k, {})
    /\ Intersect1Body(k, PairsEdges(tri.lanes))

\* TrianglePairsNIntersector1MoellerTrumbore::occluded
PairsOccluded1(k) ==
    /\ ~tri.mblur
    /\ Enter("pairs_occluded1", k, {})
    /\ Occluded1Body(k, PairsEdges(tri.lanes))

----------------------------------------------------------------------------
\* Per-lane intersection kernel, triangle_intersect_moeller_trumbore_k

\* u, v, t of every triangle lane for the ray lane under test
LaneHits == HitsOf(ray[op.k], StoredEdges(tri.lanes))

\* denominator, edge tests and depth test; the first selection
LaneIntersectCall(k) ==
    /\ ~tri.mblur
    /\ Enter("intersect_k", k, {})
    /\ LET E == StoredEdges(tri.lanes)
           r == ray[k]
           V == {l \in TriLanes :
                    ValidLaneIntersect(cfg, MT(r.org, r.dir, E[l]), r.tnear, r.tfar)}
       IN  IF V = {}
           THEN /\ pc' = "done"
                /\ ret' = RetVoid
                /\ UNCHANGED <<valid, sel>>
           ELSE /\ valid' = V
                /\ sel' = select_min(V, HitsOf(r, E))
                /\ pc' = IF LoopCompiled(cfg) THEN "k_entry" ELSE "k_update"
                /\ UNCHANGED ret
    /\ UNCHANGED <<cfg, tri, ray, m, i_tri, valid0, commits, fcalls, lookups>>

\* from the label entry to the end of the loop body
LaneIntersectEntry ==
    /\ pc = "k_entry"
    /\ LET k == op.k
           i == sel
           geomID == tri.lanes[i].geomID
       IN  /\ lookups' = Append(lookups, [k |-> k, i |-> i])
           /\ IF MaskFails(cfg, geomID, ray[k].mask)
              THEN /\ valid' = btc(valid, i)
                   /\ pc' = "k_loop"
                   /\ UNCHANGED <<ray, fcalls, commits, ret>>
              ELSE IF ConsultsIntersectionFilter(cfg, geomID)
              THEN LET f == runIntersectionFilter(ray[k], LaneHits[i], geomID, tri.lanes[i].primID)
                   IN  /\ fcalls' = Append(fcalls, [kind |-> "intersection", k |-> k, i |-> i])
                       /\ IF f.accept
                          THEN /\ ray' = [ray EXCEPT ![k] = f.ray]
                               /\ commits' = Append(commits, [k |-> k, i |-> i, by |-> "filter"])
                               /\ ret' = RetVoid
                               /\ pc' = "done"
                               /\ UNCHANGED valid
                          ELSE /\ valid' = btc(valid, i)
                               /\ pc' = "k_loop"
                               /\ UNCHANGED <<ray, commits, ret>>
              ELSE /\ pc' = "k_update"
                   /\ UNCHANGED <<ray, valid, fcalls, commits, ret>>
    /\ UNCHANGED <<cfg, tri, op, sel, m, i_tri, valid0, ray0>>

\* faulty variant: the next candidate is the lowest valid lane, not the nearest
LaneIntersectLoop_FirstLane ==
    /\ pc = "k_loop"
    /\ IF valid = {}
       THEN /\ pc' = "done"
            /\ ret' = RetVoid
            /\ UNCHANGED sel
       ELSE /\ sel' = bsf(valid)
            /\ pc' = "k_entry"
            /\ UNCHANGED ret
    /\ UNCHANGED <<cfg, tri, ray, op, valid, m, i_tri, valid0, ray0, commits, fcalls, lookups>>

\* faulty variant: with no candidate left the loop is left by break, not by return
LaneIntersectLoop_FallsThrough ==
    /\ pc = "k_loop"
    /\ IF valid = {}
       THEN /\ pc' = "k_update"
            /\ UNCHANGED <<sel, ret>>
       ELSE /\ sel' = select_min(valid, LaneHits)
            /\ pc' = "k_entry"
            /\ UNCHANGED ret
    /\ UNCHANGED <<cfg, tri, ray, op, valid, m, i_tri, valid0, ray0, commits, fcalls, lookups>>

\* the head of the loop: leave when no candidate is left, else select again
LaneIntersectLoop ==
    /\ pc = "k_loop"
    /\ IF valid = {}
       THEN /\ pc' = "done"
            /\ ret' = RetVoid
            /\ UNCHANGED sel
       ELSE /\ sel' = select_min(valid, LaneHits)
            /\ pc' = "k_entry"
            /\ UNCHANGED ret
    /\ UNCHANGED <<cfg, tri, ray, op, valid, m, i_tri, valid0, ray0, commits, fcalls, lookups>>

\* update hit information
LaneIntersectUpdate ==
    /\ pc = "k_update"
    /\ LET k == op.k
           i == sel
       IN  /\ ray' = [ray EXCEPT ![k] = Commit(@, LaneHits[i], tri.lanes[i].geomID, tri.lanes[i].primID)]
           /\ commits' = Append(commits, [k |-> k, i |-> i, by |-> "kernel"])
    /\ ret' = RetVoid
    /\ pc' = "done"
    /\ UNCHANGED <<cfg, tri, op, valid, sel, m, i_tri, valid0, ray0, fcalls, lookups>>

----------------------------------------------------------------------------
\* Per-lane occlusion kernel, triangle_occluded_moeller_trumbore_k

\* faulty variant: an accepted candidate is stored in the ray as its new tfar
LaneOccludedReturn_StoresHit(b) ==
    /\ ret' = RetBool(b)
    /\ pc' = "done"
    /\ ray' = IF b /\ m # {} THEN [ray EXCEPT ![op.k].tfar = LaneHits[bsf(m)].t] ELSE ray

\* return true / return false: the result is the only output
LaneOccludedReturn(b) ==
    /\ ret' = RetBool(b)
    /\ pc' = "done"
    /\ UNCHANGED ray

\* edge tests, depth test and denominator test; m = movemask(valid)
LaneOccludedCall(k) ==
    /\ ~tri.mblur
    /\ Enter("occluded_k", k, {})
    /\ LET E == StoredEdges(tri.lanes)
           r == ray[k]
           V == {l \in TriLanes :
                    ValidLaneOccluded(cfg, MT(r.org, r.dir, E[l]), r.tnear, r.tfar)}
       IN  /\ valid' = V
           /\ IF V = {}
              THEN /\ LaneOccludedReturn(FALSE)
                   /\ UNCHANGED m
              ELSE IF LoopCompiled(cfg)
              THEN /\ m' = V
                   /\ pc' = "o_entry"
                   /\ UNCHANGED <<ret, ray>>
              ELSE /\ LaneOccludedReturn(TRUE)
                   /\ UNCHANGED m
    /\ UNCHANGED <<cfg, tri, sel, i_tri, valid0, commits, fcalls, lookups>>

\* from the label entry to the end of the loop body
LaneOccludedEntry ==
    /\ pc = "o_entry"
    /\ LET k == op.k
           i == bsf(m)
           geomID == tri.lanes[i].geomID
       IN  /\ lookups' = Append(lookups, [k |-> k, i |-> i])
           /\ IF MaskFails(cfg, geomID, ray[k].mask)
              THEN /\ m' = btc(m, i)
                   /\ pc' = "o_loop"
                   /\ UNCHANGED <<fcalls, ret, ray>>
              ELSE IF ConsultsOcclusionFilter(cfg, geomID)
              THEN /\ fcalls' = Append(fcalls, [kind |-> "occlusion", k |-> k, i |-> i])
                   /\ IF runOcclusionFilter(ray[k], LaneHits[i], geomID, tri.lanes[i].primID)
                      THEN /\ LaneOccludedReturn(TRUE)
                           /\ UNCHANGED m
                      ELSE /\ m' = btc(m, i)
                           /\ pc' = "o_loop"
                           /\ UNCHANGED <<ret, ray>>
              ELSE /\ LaneOccludedReturn(TRUE)
                   /\ UNCHANGED <<m, fcalls>>
    /\ UNCHANGED <<cfg, tri, op, valid, sel, i_tri, valid0, ray0, commits>>

\* faulty variant: after a rejected candidate the kernel returns false at once
LaneOccludedLoop_GivesUp ==
    /\ pc = "o_loop"
    /\ LaneOccludedReturn(FALSE)
    /\ UNCHANGED <<cfg, tri, op, valid, sel, m, i_tri, valid0, ray0, commits, fcalls, lookups>>

\* the head of the loop: return false when m is empty
LaneOccludedLoop ==
    /\ pc = "o_loop"
    /\ IF m = {}
       THEN LaneOccludedReturn(FALSE)
       ELSE /\ pc' = "o_entry"
            /\ UNCHANGED <<ret, ray>>
    /\ UNCHANGED <<cfg, tri, op, valid, sel, m, i_tri, valid0, ray0, commits, fcalls, lookups>>

----------------------------------------------------------------------------
\* Packet algorithm and its adapters

\* moeller_trumbore_intersectK: the ray lanes of V0 that pass the edge, depth
\* and denominator tests against triangle i; Ek[k] are the edges lane k sees
moeller_trumbore_intersectK(c, V0, rays, Ek, i) ==
    {k \in V0 : ValidK(c, MT(rays[k].org, rays[k].dir, Ek[k][i]), rays[k].tnear, rays[k].tfar)}

\* the hit of every ray lane against triangle i
PacketHits(rays, Ek, i) ==
    [k \in RayLanes |-> HitOf(MT(rays[k].org, rays[k].dir, Ek[k][i]), Ek[k][i].Ng)]

\* broadcast of the stored triangle: every ray lane sees the same edges
BroadcastStored == [k \in RayLanes |-> StoredEdges(tri.lanes)]

\* the motion blur adapters interpolate with each ray lane's own time
BroadcastMblur == [k \in RayLanes |-> MblurEdges(tri.lanes, ray[k].time)]

\* one iteration of the loop over the triangles of the batch (intersect)
PacketIntersectStep(Ek) ==
    /\ pc = "pkt_i"
    /\ IF i_tri = M \/ ~tri.lanes[i_tri].valid
       THEN /\ pc' = "done"
            /\ ret' = RetVoid
            /\ UNCHANGED <<ray, i_tri, commits, fcalls, lookups>>
       ELSE LET V == moeller_trumbore_intersectK(cfg, op.valid_i, ray, Ek, i_tri)
                res == IntersectKEpilog(cfg, ray, V, PacketHits(ray, Ek, i_tri), i_tri, tri.lanes)
            IN  /\ IF V = {}
                   THEN UNCHANGED <<ray, commits, fcalls, lookups>>
                   ELSE /\ ray' = res.ray
                        /\ commits' = commits \o res.cm
                        /\ fcalls' = fcalls \o res.fc
                        /\ lookups' = lookups \o res.lk
                /\ i_tri' = i_tri + 1
                /\ UNCHANGED <<pc, ret>>
    /\ UNCHANGED <<cfg, tri, op, valid, sel, m, valid0, ray0>>

\* faulty variant: every triangle is tested against the ray lanes that were
\* active on entry, not against those still active
PacketOccludedStep_TestsAll(Ek) ==
    /\ pc = "pkt_o"
    /\ IF i_tri = M \/ ~tri.lanes[i_tri].valid
       THEN /\ pc' = "done"
            /\ ret' = RetMask(RayLanes \ valid0)
            /\ UNCHANGED <<i_tri, valid0, fcalls, lookups>>
       ELSE LET V == moeller_trumbore_intersectK(cfg, op.valid_i, ray, Ek, i_tri)
                res == OccludedKEpilog(cfg, ray, V, PacketHits(ray, Ek, i_tri), i_tri, tri.lanes)
                left == IF V = {} THEN valid0 ELSE valid0 \ res.ret
            IN  /\ valid0' = left
                /\ IF V = {}
                   THEN UNCHANGED <<fcalls, lookups>>
                   ELSE /\ fcalls' = fcalls \o res.fc
                        /\ lookups' = lookups \o res.lk
                /\ IF left = {}
                   THEN /\ pc' = "done"
                        /\ ret' = RetMask(RayLanes \ left)
                        /\ UNCHANGED i_tri
                   ELSE /\ i_tri' = i_tri + 1
                        /\ UNCHANGED <<pc, ret>>
    /\ UNCHANGED <<cfg, tri, ray, op, valid, sel, m, ray0, commits>>

\* one iteration of the loop over the triangles of the batch (occluded)
PacketOccludedStep(Ek) ==
    /\ pc = "pkt_o"
    /\ IF i_tri = M \/ ~tri.lanes[i_tri].valid
       THEN /\ pc' = "done"
            /\ ret' = RetMask(RayLanes \ valid0)
            /\ UNCHANGED <<i_tri, valid0, fcalls, lookups>>
       ELSE LET V == moeller_trumbore_intersectK(cfg, valid0, ray, Ek, i_tri)
                res == OccludedKEpilog(cfg, ray, V, PacketHits(ray, Ek, i_tri), i_tri, tri.lanes)
                left == IF V = {} THEN valid0 ELSE valid0 \ res.ret
            IN  /\ valid0' = left
                /\ IF V = {}
                   THEN UNCHANGED <<fcalls, lookups>>
                   ELSE /\ fcalls' = fcalls \o res.fc
                        /\ lookups' = lookups \o res.lk
                /\ IF left = {}
                   THEN /\ pc' = "done"
                        /\ ret' = RetMask(RayLanes \ left)
                        /\ UNCHANGED i_tri
                   ELSE /\ i_tri' = i_tri + 1
                        /\ UNCHANGED <<pc, ret>>
    /\ UNCHANGED <<cfg, tri, ray, op, valid, sel, m, ray0, commits>>

PacketCall(name, vi, label) ==
    /\ Enter(name, -1, vi)
    /\ pc' = label
    /\ i_tri' = 0
    /\ valid0' = vi
    /\ UNCHANGED <<cfg, tri, ray, valid, sel, m, ret, commits, fcalls, lookups>>

\* TriangleNIntersectorMMoellerTrumbore::intersect (packet)
IntersectKCall(vi) == ~tri.mblur /\ PacketCall("intersectK", vi, "pkt_i")

IntersectKStep == op.name = "intersectK" /\ PacketIntersectStep(BroadcastStored)

\* TriangleNIntersectorMMoellerTrumbore::occluded (packet)
OccludedKCall(vi) == ~tri.mblur /\ PacketCall("occludedK", vi, "pkt_o")

OccludedKStep == op.name = "occludedK" /\ PacketOccludedStep(BroadcastStored)

\* TriangleNMblurIntersectorMMoellerTrumbore::intersect (packet)
MblurIntersectKCall(vi) == tri.mblur /\ PacketCall("mblur_intersectK", vi, "pkt_i")

MblurIntersectKStep == op.name = "mblur_intersectK" /\ PacketIntersectStep(BroadcastMblur)

\* TriangleNMblurIntersectorMMoellerTrumbore::occluded (packet)
MblurOccludedKCall(vi) == tri.mblur /\ PacketCall("mblur_occludedK", vi, "pkt_o")

MblurOccludedKStep == op.name = "mblur_occludedK" /\ PacketOccludedStep(BroadcastMblur)

----------------------------------------------------------------------------
\* Per-lane operations of the motion blur adapter

\* the overloads of triangle_intersect_moeller_trumbore_k and of
\* triangle_occluded_moeller_trumbore_k, by the number of their parameters:
\* (ray,k,v0,e1,e2,Ng,geomIDs,primIDs,scene) and (ray,k,v0,v1,v2,geomIDs,primIDs,i,scene)
LaneOverloads == {[form |-> "edges", params |-> 9], [form |-> "vertices", params |-> 9]}

\* overload resolution of a call with nargs arguments (no overload has defaults)
Viable(nargs) == {o \in LaneOverloads : o.params = nargs}

\* the adapter calls (ray,k,v0,v1,v2,tri.geomIDs,tri.primIDs,scene); with no
\* viable overload the operation cannot be instantiated and nothing is computed
MblurLaneBody ==
    /\ Viable(8) = {}
    /\ ret' = RetIllFormed
    /\ pc' = "done"
    /\ UNCHANGED <<cfg, tri, ray, valid, sel, m, i_tri, valid0, commits, fcalls, lookups>>

\* TriangleNMblurIntersectorMMoellerTrumbore::intersect (per lane)
MblurLaneIntersect(k) == tri.mblur /\ Enter("mblur_intersect_k", k, {}) /\ MblurLaneBody

\* TriangleNMblurIntersectorMMoellerTrumbore::occluded (per lane)
MblurLaneOccluded(k) == tri.mblur /\ Enter("mblur_occluded_k", k, {}) /\ MblurLaneBody

----------------------------------------------------------------------------
\* Specification: one operation is called on the inputs and runs to its end

ActiveSets == SUBSET RayLanes \ {{}}

Next ==
    \/ \E k \in RayLanes : Intersect1(k)
    \/ \E k \in RayLanes : Occluded1(k)
    \/ \E k \in RayLanes : MblurIntersect1(k)
    \/ \E k \in RayLanes : MblurOccluded1(k)
    \/ \E k \in RayLanes : PairsIntersect1(k)
    \/ \E k \in RayLanes : PairsOccluded1(k)
    \/ \E k \in RayLanes : LaneIntersectCall(k)
    \/ LaneIntersectEntry
    \/ LaneIntersectLoop
    \/ LaneIntersectUpdate
    \/ \E k \in RayLanes : LaneOccludedCall(k)
    \/ LaneOccludedEntry
    \/ LaneOccludedLoop
    \/ \E vi \in ActiveSets : IntersectKCall(vi)
    \/ IntersectKStep
    \/ \E vi \in ActiveSets : OccludedKCall(vi)
    \/ OccludedKStep
    \/ \E vi \in ActiveSets : MblurIntersectKCall(vi)
    \/ MblurIntersectKStep
    \/ \E vi \in ActiveSets : MblurOccludedKCall(vi)
    \/ MblurOccludedKStep
    \/ \E k \in RayLanes : MblurLaneIntersect(k)
    \/ \E k \in RayLanes : MblurLaneOccluded(k)

Spec == Init /\ [][Next]_vars

\* The per-lane kernels alone, on batches whose lanes are all candidates: the
\* depths of the lanes are a rotation of 1, 2, ..., the geometries vary
LoopBatches ==
    {b \in PolicyBatches :
        \E s \in TriLanes : \A l \in TriLanes : b.lanes[l].v0[3] = 1 + ((l + s) % MaxZ)}

LoopInit == Init /\ tri \in LoopBatches

LoopNext ==
    \/ \E k \in RayLanes : LaneIntersectCall(k)
    \/ LaneIntersectEntry
    \/ LaneIntersectLoop
    \/ LaneIntersectUpdate
    \/ \E k \in RayLanes : LaneOccludedCall(k)
    \/ LaneOccludedEntry
    \/ LaneOccludedLoop

\* the positions inside a kernel that has been called and has not returned
InKernel == {"k_entry", "k_loop", "k_update", "o_entry", "o_loop"}

\* a kernel inside its body moves on to its next position: every step of
\* LoopNext from a position of InKernel leaves that position, and one is
\* possible there whenever every filter callback returns
Advance == pc \in InKernel /\ pc' \in (InKernel \cup {"done"}) \ {pc}

\* the kernels are straight-line code around their loops: a kernel that has
\* been called keeps executing
LoopSpec == LoopInit /\ [][LoopNext]_vars /\ WF_pc(Advance)

\* Per-lane intersection called again and again on the same rays, as the
\* traversal does for one batch after another

\* batches of one geometry whose lanes are all candidates
SeqPolicy == {b \in LoopBatches : \A l \in TriLanes : b.lanes[l].geomID = b.lanes[0].geomID}

\* batches with one triangle of either facing on the ray axis
SeqGeom ==
    {b \in GeomBatches(FALSE) :
        /\ b.lanes[0].v0 # b.lanes[0].v1
        /\ b.lanes[0].v0[1] = -1 /\ b.lanes[0].v0[3] = b.lanes[0].v2[3]
        /\ \A l \in TriLanes \ {0} : b.lanes[l].v0[1] = 1}

SeqBatches == IF tri \in SeqGeom THEN SeqGeom ELSE SeqPolicy

SeqInit == Init /\ tri \in SeqPolicy \cup SeqGeom

\* the call has returned; the caller comes back with another batch
NextCall ==
    /\ pc = "done"
    /\ pc' = "idle"
    /\ tri' \in SeqBatches
    /\ op' = [name |-> "none", k |-> -1, valid_i |-> {}]
    /\ valid' = {}
    /\ sel' = -1
    /\ ret' = RetNone
    /\ ray0' = ray
    /\ commits' = <<>>
    /\ fcalls' = <<>>
    /\ lookups' = <<>>
    /\ UNCHANGED <<cfg, ray, m, i_tri, valid0>>

SeqNext ==
    \/ \E k \in RayLanes : LaneIntersectCall(k)
    \/ LaneIntersectEntry
    \/ LaneIntersectLoop
    \/ LaneIntersectUpdate
    \/ NextCall

SeqSpec == SeqInit /\ [][SeqNext]_vars

----------------------------------------------------------------------------
\* Vocabulary of the properties: the call under way seen from its entry state

IntersectOps == {"intersect1", "intersect_k", "intersectK", "mblur_intersect1", "mblur_intersectK"}

Done(name) == pc = "done" /\ op.name = name

\* the triangles of the batch as the adapter in use presents them to ray lane k
PairsOps == {"pairs_intersect1", "pairs_occluded1"}

OpEdges(k) ==
    IF tri.mblur THEN MblurEdges(tri.lanes, ray0[k].time)
    ELSE IF op.name \in PairsOps THEN PairsEdges(tri.lanes)
    ELSE StoredEdges(tri.lanes)

OpMT(k, l) == MT(ray0[k].org, ray0[k].dir, OpEdges(k)[l])

\* distance along ray k to the plane of triangle l, (Ng.C)/(Ng.D)
PlaneT(k, l) == HitOf(OpMT(k, l), OpEdges(k)[l].Ng).t

\* ray k crosses triangle l (edges included) on a side the build accepts
GeomPass(k, l) ==
    LET mt == OpMT(k, l)
    IN  /\ IF cfg.BACKFACE_CULLING THEN mt.den > 0 ELSE mt.den # 0
        /\ mt.U >= 0 /\ mt.V >= 0 /\ mt.U + mt.V <= mt.absDen

InOpen(k, t) == RatLT(ray0[k].tnear, t) /\ RatLT(t, ray0[k].tfar)

InClosed(k, t) == RatLE(ray0[k].tnear, t) /\ RatLE(t, ray0[k].tfar)

CandOpen(k) == {l \in TriLanes : GeomPass(k, l) /\ InOpen(k, PlaneT(k, l))}

CandClosed(k) == {l \in TriLanes : GeomPass(k, l) /\ InClosed(k, PlaneT(k, l))}

\* the policy of the build accepts triangle l for ray k
PolicyOKI(k, l) ==
    LET g == tri.lanes[l].geomID
    IN  /\ cfg.RAY_MASK => ~MaskDisjoint(Scene[g].mask, ray0[k].mask)
        /\ (cfg.INTERSECTION_FILTER /\ cfg.enableIntersectionFilter /\ Scene[g].hasIntersectionFilter)
              => Scene[g].intersectionAccepts

PolicyOKO(k, l) ==
    LET g == tri.lanes[l].geomID
    IN  /\ cfg.RAY_MASK => ~MaskDisjoint(Scene[g].mask, ray0[k].mask)
        /\ (cfg.INTERSECTION_FILTER /\ cfg.enableIntersectionFilter /\ Scene[g].hasOcclusionFilter)
              => Scene[g].occlusionAccepts

\* the hit fields a commit of triangle l leaves in ray k
HitData(k, l) ==
    LET h == HitOf(OpMT(k, l), OpEdges(k)[l].Ng)
    IN  <<h.u, h.v, h.t, h.Ng, tri.lanes[l].geomID, tri.lanes[l].primID>>

CommitsOf(k) == {n \in 1 .. Len(commits) : commits[n].k = k}

AllLanesValid == \A l \in TriLanes : tri.lanes[l].valid

----------------------------------------------------------------------------
\* C1: every intersection operation accepts only hits with t strictly inside
\* (tnear, tfar), and every occlusion operation accepts exactly the candidates
\* with t in [tnear, tfar]: a candidate at t = tfar is rejected by the former
\* and accepted by the latter.

\* every committed hit lies strictly inside the interval the ray entered with
C1_IntersectionOpen ==
    (pc = "done" /\ op.name \in IntersectOps) =>
        \A n \in 1 .. Len(commits) : InOpen(commits[n].k, PlaneT(commits[n].k, commits[n].i))

\* single ray and per-lane occlusion report a ray occluded exactly when some
\* triangle it crosses within the closed interval passes the policy
C1_OcclusionClosed ==
    (pc = "done" /\ op.name \in {"occluded1", "occluded_k", "mblur_occluded1"}) =>
        (ret.b <=> \E l \in CandClosed(op.k) : PolicyOKO(op.k, l))

C1_AsClaimed == C1_IntersectionOpen /\ C1_OcclusionClosed

\* what the code does instead: the interval is open in the single ray
\* algorithm, closed in the packet algorithm, whatever the epilog
C1_SingleRayOcclusionOpen ==
    (pc = "done" /\ op.name \in {"occluded1", "mblur_occluded1"}) =>
        (ret.b <=> \E l \in CandOpen(op.k) : PolicyOKO(op.k, l))

C1_PacketIntersectionClosed ==
    (pc = "done" /\ op.name \in {"intersectK", "mblur_intersectK"}) =>
        \A n \in 1 .. Len(commits) : InClosed(commits[n].k, PlaneT(commits[n].k, commits[n].i))

\* a packet intersection has committed a hit at exactly the tfar of entry
C1_HitAtTfarCommitted ==
    /\ Done("intersectK")
    /\ \E n \in 1 .. Len(commits) : PlaneT(commits[n].k, commits[n].i) = ray0[commits[n].k].tfar

\* a single ray occlusion query has missed a triangle at exactly tfar
C1_HitAtTfarMissed ==
    /\ Done("occluded1")
    /\ ~ret.b
    /\ \E l \in CandClosed(op.k) : PolicyOKO(op.k, l) /\ PlaneT(op.k, l) = ray0[op.k].tfar

----------------------------------------------------------------------------
\* C2: in the per-lane intersection kernel the lane examined at every
\* iteration is the arg-min of t among the lanes still valid, and the hit
\* committed is the nearest candidate the mask and filter accept, with that
\* candidate's (t, u, v, Ng, geomID, primID); nearer rejected candidates and
\* farther ones are never committed.
C2_ArgMinReselection ==
    /\ pc = "k_entry" =>
          /\ sel \in valid
          /\ \A j \in valid : RatLE(PlaneT(op.k, sel), PlaneT(op.k, j))
    /\ Done("intersect_k") =>
          LET k == op.k
              A == {l \in CandOpen(k) : PolicyOKI(k, l)}
          IN  A # {} =>
                /\ Len(commits) = 1
                /\ commits[1].i \in A
                /\ \A j \in A : RatLE(PlaneT(k, commits[1].i), PlaneT(k, j))
                /\ HitFields(ray[k]) = HitData(k, commits[1].i)

\* the third nearest candidate is committed after two nearer ones were rejected
C2_Witness ==
    /\ Done("intersect_k")
    /\ Len(commits) = 1
    /\ \E a, b \in CandOpen(op.k) :
          /\ a # b
          /\ ~PolicyOKI(op.k, a) /\ ~PolicyOKI(op.k, b)
          /\ RatLT(PlaneT(op.k, a), PlaneT(op.k, b))
          /\ RatLT(PlaneT(op.k, b), PlaneT(op.k, commits[1].i))
    /\ HitFields(ray[op.k]) = HitData(op.k, commits[1].i)

----------------------------------------------------------------------------
\* C3: in every path a triangle lane with Ng.D = 0 is never reported as a
\* hit or as occluding, with or without backface culling, also when U, V and
\* T are all 0 for that lane.

\* the triangles ray k crosses within the closed interval with Ng.D # 0
NonParallel(k) ==
    {l \in TriLanes :
        LET mt == OpMT(k, l)
        IN  /\ mt.den # 0 /\ mt.U >= 0 /\ mt.V >= 0 /\ mt.U + mt.V <= mt.absDen
            /\ InClosed(k, PlaneT(k, l))}

C3_ParallelNeverHit ==
    /\ \A n \in 1 .. Len(commits) : OpMT(commits[n].k, commits[n].i).den # 0
    /\ pc \in {"k_entry", "k_loop", "k_update", "o_entry", "o_loop"} =>
          \A l \in valid \cup m : OpMT(op.k, l).den # 0
    /\ (pc = "done" /\ ret.kind = "bool" /\ ret.b) => NonParallel(op.k) # {}
    /\ (pc = "done" /\ ret.kind = "mask") =>
          \A k \in ret.mask \cap op.valid_i : NonParallel(k) # {}

\* an occlusion query without culling has met a lane with den = U = V = T = 0
C3_Witness ==
    /\ Done("occluded_k")
    /\ ~cfg.BACKFACE_CULLING
    /\ ~ret.b
    /\ \E l \in TriLanes :
          LET mt == OpMT(op.k, l)
          IN  mt.den = 0 /\ mt.U = 0 /\ mt.V = 0 /\ mt.T = 0

----------------------------------------------------------------------------
\* C4: a per-lane intersection call for ray lane k that ends without an
\* accepted candidate has written none of the hit fields of lane k, and no
\* call writes any field of another ray lane.
C4_NoWriteWithoutAccept ==
    op.name = "intersect_k" =>
        /\ \A k2 \in RayLanes \ {op.k} : ray[k2] = ray0[k2]
        /\ \A n \in 1 .. Len(commits) : commits[n].k = op.k
        /\ pc \in {"k_entry", "k_loop", "k_update"} => (ray = ray0 /\ commits = <<>>)
        /\ (pc = "done" /\ \A l \in CandOpen(op.k) : ~PolicyOKI(op.k, l)) =>
              (commits = <<>> /\ ray = ray0)

\* every candidate of a call was cleared by the mask or rejected by the filter
C4_Witness ==
    /\ Done("intersect_k")
    /\ Cardinality(CandOpen(op.k)) >= 2
    /\ \A l \in CandOpen(op.k) : ~PolicyOKI(op.k, l)
    /\ fcalls # <<>>
    /\ commits = <<>>
    /\ ray = ray0

----------------------------------------------------------------------------
\* C5: the per-lane occlusion kernel never changes a ray: whatever it
\* returns and however many candidates were rejected, every field of every
\* ray lane is as on entry.
C5_OcclusionLeavesRay == op.name = "occluded_k" => (ray = ray0 /\ commits = <<>>)

\* occlusion was reported after the filter rejected an earlier candidate
C5_Witness ==
    /\ Done("occluded_k")
    /\ ret.b
    /\ Len(fcalls) >= 2
    /\ ray = ray0

----------------------------------------------------------------------------
\* C6: the per-lane occlusion kernel returns true iff some triangle lane
\* passes the edge, depth and denominator tests and is accepted by the mask
\* and filter policy of the build, whatever the order of the scan.
C6_OccludedIffAccepted ==
    Done("occluded_k") => (ret.b <=> \E l \in CandClosed(op.k) : PolicyOKO(op.k, l))

\* the accepted candidate was found behind two rejected ones
C6_Witness ==
    /\ Done("occluded_k")
    /\ ret.b
    /\ \E a, b, l \in CandClosed(op.k) :
          a < b /\ b < l /\ ~PolicyOKO(op.k, a) /\ ~PolicyOKO(op.k, b) /\ PolicyOKO(op.k, l)

----------------------------------------------------------------------------
\* C7: occlusion short-circuits. As claimed: when the nearest candidate
\* (smallest t) is accepted by mask and filter, the per-lane occlusion kernel
\* returns true without invoking the occlusion filter on any farther
\* candidate.

\* the candidates of least t
Nearest(k) == {l \in CandClosed(k) : \A j \in CandClosed(k) : RatLE(PlaneT(k, l), PlaneT(k, j))}

C7_AsClaimed ==
    (Done("occluded_k") /\ \E l \in Nearest(op.k) : PolicyOKO(op.k, l)) =>
        /\ ret.b
        /\ \A n \in 1 .. Len(fcalls) : fcalls[n].i \in Nearest(op.k)

\* C7 as amended: the scan is in lane order, not in order of t. When the
\* candidate of lowest lane index is accepted the kernel returns true with at
\* most one filter call, the one for that candidate; and no filter is ever
\* invoked on a candidate of higher lane index than the first accepted one.
C7_ShortCircuitInLaneOrder ==
    Done("occluded_k") =>
        LET k == op.k
            A == {l \in CandClosed(k) : PolicyOKO(k, l)}
        IN  /\ (CandClosed(k) # {} /\ PolicyOKO(k, bsf(CandClosed(k)))) =>
                  /\ ret.b
                  /\ Len(fcalls) <= 1
                  /\ \A n \in 1 .. Len(fcalls) : fcalls[n].i = bsf(CandClosed(k))
            /\ A # {} => \A n \in 1 .. Len(fcalls) : fcalls[n].i <= bsf(A)
            /\ \A n1, n2 \in 1 .. Len(fcalls) : fcalls[n1].i = fcalls[n2].i => n1 = n2

\* M candidates that all carry a filter; the first lane is accepted, is not
\* the nearest, and is the only one the filter saw
C7_Witness ==
    /\ Done("occluded_k")
    /\ ret.b
    /\ CandClosed(op.k) = TriLanes
    /\ \A l \in TriLanes : ConsultsOcclusionFilter(cfg, tri.lanes[l].geomID)
    /\ 0 \notin Nearest(op.k)
    /\ fcalls = <<[kind |-> "occlusion", k |-> op.k, i |-> 0]>>

----------------------------------------------------------------------------
\* C8: at most one hit is committed per call. As claimed: one call of
\* intersect, per-lane or packet, writes the hit fields of a ray lane at most
\* once, and the value written is the nearest accepted candidate of the batch.

\* the triangles the packet loop reaches: those before the first invalid lane
Processed == {l \in TriLanes : \A j \in 0 .. l : tri.lanes[j].valid}

C8_AsClaimed ==
    (pc = "done" /\ op.name \in {"intersect_k", "intersectK"}) =>
        \A k \in RayLanes : Cardinality(CommitsOf(k)) <= 1

\* C8 as amended: the per-lane form writes the hit fields of its lane at most
\* once, the nearest accepted candidate. The packet form commits at most once
\* per triangle of the batch, so up to M times per ray lane in one call, each
\* commit by a later triangle and not farther than the one before; the value
\* left at the end is that of a nearest accepted candidate among the triangles
\* processed.
C8_OneCommitPerTriangle ==
    /\ op.name = "intersect_k" =>
          /\ Len(commits) <= 1
          /\ (pc = "done" /\ Len(commits) = 1) =>
                /\ HitFields(ray[op.k]) = HitData(op.k, commits[1].i)
                /\ \A j \in CandOpen(op.k) :
                      PolicyOKI(op.k, j) => RatLE(PlaneT(op.k, commits[1].i), PlaneT(op.k, j))
    /\ op.name = "intersectK" =>
          \A k \in RayLanes :
              /\ Cardinality(CommitsOf(k)) <= M
              /\ \A n1, n2 \in CommitsOf(k) :
                    n1 < n2 => /\ commits[n1].i < commits[n2].i
                               /\ RatLE(PlaneT(k, commits[n2].i), PlaneT(k, commits[n1].i))
              /\ pc = "done" =>
                    LET A == {l \in Processed \cap CandClosed(k) : PolicyOKI(k, l)}
                    IN  IF A = {} \/ k \notin op.valid_i
                        THEN ray[k] = ray0[k] /\ CommitsOf(k) = {}
                        ELSE \E l \in A :
                                /\ \A j \in A : RatLE(PlaneT(k, l), PlaneT(k, j))
                                /\ HitFields(ray[k]) = HitData(k, l)

\* one packet call has committed M hits, one after the other, to one ray lane
C8_Witness ==
    /\ Done("intersectK")
    /\ \E k \in RayLanes : Cardinality(CommitsOf(k)) = M

----------------------------------------------------------------------------
\* C9: a triangle lane marked invalid is skipped by every operation: no path
\* commits a hit from it, reports occlusion by it or looks up mask or filter
\* for it, whatever vertex data it holds and wherever it sits in the batch.

ValidLanes == {l \in TriLanes : tri.lanes[l].valid}

C9_AsClaimed ==
    /\ \A n \in 1 .. Len(commits) : commits[n].i \in ValidLanes
    /\ \A n \in 1 .. Len(lookups) : lookups[n].i \in ValidLanes
    /\ \A n \in 1 .. Len(fcalls) : fcalls[n].i \in ValidLanes
    /\ (pc = "done" /\ ret.kind = "bool" /\ ret.b) =>
          \E l \in ValidLanes \cap CandClosed(op.k) : PolicyOKO(op.k, l)
    /\ (pc = "done" /\ ret.kind = "mask") =>
          \A k \in ret.mask \cap op.valid_i :
              \E l \in ValidLanes \cap CandClosed(k) : PolicyOKO(k, l)

\* what the code does: only the packet adapters test tri.valid(i)
C9_PacketSkipsInvalid ==
    op.name \in {"intersectK", "occludedK", "mblur_intersectK", "mblur_occludedK"} =>
        /\ \A n \in 1 .. Len(commits) : commits[n].i \in Processed
        /\ \A n \in 1 .. Len(lookups) : lookups[n].i \in Processed
        /\ \A n \in 1 .. Len(fcalls) : fcalls[n].i \in Processed
        /\ (pc = "done" /\ ret.kind = "mask") =>
              \A k \in ret.mask \cap op.valid_i :
                  \E l \in Processed \cap CandClosed(k) : PolicyOKO(k, l)

\* a per-lane intersection has committed the triangle held by an invalid lane
C9_InvalidLaneCommitted ==
    /\ Done("intersect_k")
    /\ \E n \in 1 .. Len(commits) : ~tri.lanes[commits[n].i].valid

----------------------------------------------------------------------------
\* C10: each of the six motion blur operations (intersect and occluded in
\* single ray, per-lane and packet form) gives the outcome of the static
\* algorithm applied to the triangle with vertices v_i + tau*dv_i, tau the time
\* of the ray lane. At tau = 0 this is the base triangle, at tau = 1 the base
\* triangle plus its velocity.

\* the batch displaced to the time of ray lane k, as a static TriangleN batch
Displaced(k) ==
    [l \in TriLanes |->
        LET q == Interpolate(tri.lanes[l], ray0[k].time)
        IN  [tri.lanes[l] EXCEPT !.v0 = q.v0, !.v1 = q.v1, !.v2 = q.v2]]

StaticEdges(k) == StoredEdges(Displaced(k))

\* outcome of the static per-lane kernels on the displaced batch
StaticLaneIntersect(k) ==
    LET E == StaticEdges(k)
        r == ray0[k]
        h == HitsOf(r, E)
        A == {l \in TriLanes : /\ ValidLaneIntersect(cfg, MT(r.org, r.dir, E[l]), r.tnear, r.tfar)
                               /\ PolicyOKI(k, l)}
    IN  IF A = {} THEN r
        ELSE LET i == select_min(A, h)
             IN  Commit(r, h[i], tri.lanes[i].geomID, tri.lanes[i].primID)

StaticLaneOccluded(k) ==
    LET E == StaticEdges(k)
        r == ray0[k]
    IN  \E l \in TriLanes : /\ ValidLaneOccluded(cfg, MT(r.org, r.dir, E[l]), r.tnear, r.tfar)
                             /\ PolicyOKO(k, l)

\* outcome of the static packet loop for ray lane k, from triangle i on
RECURSIVE StaticPacketIntersect(_, _, _)
StaticPacketIntersect(r, k, i) ==
    IF i = M \/ ~tri.lanes[i].valid THEN r
    ELSE LET e == StaticEdges(k)[i]
             mt == MT(r.org, r.dir, e)
         IN  IF k \in op.valid_i /\ ValidK(cfg, mt, r.tnear, r.tfar) /\ PolicyOKI(k, i)
             THEN StaticPacketIntersect(
                      Commit(r, HitOf(mt, e.Ng), tri.lanes[i].geomID, tri.lanes[i].primID), k, i + 1)
             ELSE StaticPacketIntersect(r, k, i + 1)

StaticPacketOccluded(k) ==
    LET E == StaticEdges(k)
        r == ray0[k]
    IN  \/ k \notin op.valid_i
        \/ \E l \in Processed : /\ ValidK(cfg, MT(r.org, r.dir, E[l]), r.tnear, r.tfar)
                                 /\ PolicyOKO(k, l)

\* the single ray and packet motion blur operations agree with the static ones
C10_SingleAndPacket ==
    /\ Done("mblur_intersect1") =>
          ray[op.k] = moeller_trumbore_intersect1(cfg, op.k, ray0[op.k],
                                                  StaticEdges(op.k), tri.lanes).ray
    /\ Done("mblur_occluded1") =>
          ret = RetBool(moeller_trumbore_occluded1(cfg, op.k, ray0[op.k],
                                                   StaticEdges(op.k), tri.lanes).ret)
    /\ Done("mblur_intersectK") =>
          \A k \in RayLanes : ray[k] = StaticPacketIntersect(ray0[k], k, 0)
    /\ Done("mblur_occludedK") =>
          ret = RetMask({k \in RayLanes : StaticPacketOccluded(k)})

\* the per-lane motion blur operations agree with the static per-lane kernels
C10_PerLane ==
    /\ Done("mblur_intersect_k") => ray[op.k] = StaticLaneIntersect(op.k)
    /\ Done("mblur_occluded_k") => ret = RetBool(StaticLaneOccluded(op.k))

\* C10 as claimed, for all six operations
C10_AsClaimed == C10_SingleAndPacket /\ C10_PerLane

\* the static per-lane kernels themselves produce the reference outcome
C10_StaticPerLane ==
    /\ Done("intersect_k") => ray[op.k] = StaticLaneIntersect(op.k)
    /\ Done("occluded_k") => ret = RetBool(StaticLaneOccluded(op.k))

\* a moving triangle was hit by a single ray motion blur intersection
C10_MovingTriangleHit ==
    /\ Done("mblur_intersect1")
    /\ commits # <<>>
    /\ ray0[op.k].time > 0
    /\ tri.lanes[commits[1].i].dv0 # Zero3

----------------------------------------------------------------------------
\* C11: the paired-triangle adapter reports a ray that crosses a triangle of a
\* pair within the valid interval, and the triangle it tests is the one whose
\* edges are the batch's e1 and e2: the stored edge vectors are used as edges,
\* not taken for vertices.

\* the triangles with the batch's v0 as corner and its e1, e2 as edges that
\* ray k crosses inside (tnear, tfar), by the tests of the single ray algorithm
PairsCand(k) ==
    {l \in TriLanes :
        Valid1(cfg, MT(ray0[k].org, ray0[k].dir, StoredEdges(tri.lanes)[l]),
               ray0[k].tnear, ray0[k].tfar)}

\* C11 as claimed: a crossed and accepted triangle of the batch is reported,
\* and what is reported is the outcome of the single ray algorithm on the
\* triangles with edges e1, e2
C11_AsClaimed ==
    /\ Done("pairs_intersect1") =>
          /\ (\E l \in PairsCand(op.k) : PolicyOKI(op.k, l)) => commits # <<>>
          /\ ray[op.k] = moeller_trumbore_intersect1(cfg, op.k, ray0[op.k],
                                                     StoredEdges(tri.lanes), tri.lanes).ray
    /\ Done("pairs_occluded1") =>
          ret = RetBool(moeller_trumbore_occluded1(cfg, op.k, ray0[op.k],
                                                   StoredEdges(tri.lanes), tri.lanes).ret)

\* what the code does: the single ray algorithm runs on the triangle whose
\* vertices are v0, e1 and e2
C11_EdgesTakenForVertices ==
    /\ Done("pairs_intersect1") =>
          ray[op.k] = moeller_trumbore_intersect1(cfg, op.k, ray0[op.k],
                         [l \in TriLanes |->
                             LET t == tri.lanes[l]
                             IN  EdgesOf(t.v0, VSub(t.v0, t.v1), VSub(t.v2, t.v0))],
                         tri.lanes).ray
    /\ Done("pairs_occluded1") =>
          ret = RetBool(moeller_trumbore_occluded1(cfg, op.k, ray0[op.k],
                         [l \in TriLanes |->
                             LET t == tri.lanes[l]
                             IN  EdgesOf(t.v0, VSub(t.v0, t.v1), VSub(t.v2, t.v0))],
                         tri.lanes).ret)

\* the ray crosses a triangle of the batch and the pairs adapter reports no hit
C11_CrossedTriangleMissed ==
    /\ Done("pairs_intersect1")
    /\ PairsCand(op.k) # {}
    /\ commits = <<>>
    /\ ray = ray0

----------------------------------------------------------------------------
\* C12: with the ray mask compiled in, a candidate of the per-lane kernels
\* whose geometry mask shares no bit with the mask of ray lane k is cleared
\* from the candidate set before any filter is consulted: no filter is invoked
\* for it, it is never committed, and it never makes occlusion return true.

\* the geometry mask of triangle l shares no bit with the mask of ray lane k
MaskedOut(k, l) == MaskDisjoint(Scene[tri.lanes[l].geomID].mask, ray0[k].mask)

C12_MaskBeforeFilter ==
    (cfg.RAY_MASK /\ op.name \in {"intersect_k", "occluded_k"}) =>
        /\ \A n \in 1 .. Len(fcalls) : ~MaskedOut(fcalls[n].k, fcalls[n].i)
        /\ \A n \in 1 .. Len(commits) : ~MaskedOut(commits[n].k, commits[n].i)
        /\ \A n \in 1 .. Len(lookups) :
              MaskedOut(lookups[n].k, lookups[n].i) =>
                  lookups[n].i \notin (IF op.name = "intersect_k" THEN valid ELSE m)
        /\ (pc = "k_update" \/ (pc = "done" /\ commits # <<>>)) => ~MaskedOut(op.k, sel)
        /\ (Done("occluded_k") /\ ret.b) =>
              \E l \in CandClosed(op.k) : ~MaskedOut(op.k, l) /\ PolicyOKO(op.k, l)

\* the nearest candidate carries a filter that would accept it and is masked
\* out; it was looked up and cleared, and a farther candidate was accepted by
\* its filter
C12_Witness ==
    /\ pc = "done"
    /\ op.name \in {"intersect_k", "occluded_k"}
    /\ cfg.RAY_MASK /\ cfg.INTERSECTION_FILTER
    /\ \E l \in CandOpen(op.k) :
          /\ MaskedOut(op.k, l)
          /\ Scene[tri.lanes[l].geomID].hasIntersectionFilter
          /\ Scene[tri.lanes[l].geomID].intersectionAccepts
          /\ Scene[tri.lanes[l].geomID].occlusionAccepts
          /\ \E n \in 1 .. Len(lookups) : lookups[n].i = l
          /\ \A n \in 1 .. Len(fcalls) : fcalls[n].i # l
    /\ fcalls # <<>>
    /\ (op.name = "intersect_k" => commits # <<>>)
    /\ (op.name = "occluded_k" => ret.b)

----------------------------------------------------------------------------
\* C13: the re-selection loops of the per-lane kernels terminate. Every
\* iteration that does not exit removes exactly the lane just examined from
\* the candidate set, no lane is examined twice in one call, and the loop ends
\* after at most M examinations, by accepting a candidate or with the
\* candidate set empty.

LaneOps == {"intersect_k", "occluded_k"}

LoopPcs == {"k_entry", "k_loop", "o_entry", "o_loop"}

\* the candidate set of the kernel under way: valid, or the bit mask m
Candidates == IF op.name = "intersect_k" THEN valid ELSE m

\* the lanes examined so far: one geometry lookup per pass through the loop body
Examined == {lookups[n].i : n \in 1 .. Len(lookups)}

C13_Measure ==
    op.name \in LaneOps =>
        /\ Len(lookups) <= M
        /\ \A n1, n2 \in 1 .. Len(lookups) : lookups[n1].i = lookups[n2].i => n1 = n2
        /\ pc \in LoopPcs =>
              /\ Examined \cap Candidates = {}
              /\ Len(lookups) + Cardinality(Candidates) <= M
              /\ pc \in {"k_entry", "o_entry"} => Candidates # {}
              /\ pc = "k_entry" => sel \in valid
        /\ (pc = "done" /\ lookups # <<>>) =>
              \/ Candidates = {}
              \/ op.name = "intersect_k" /\ commits # <<>>
              \/ op.name = "occluded_k" /\ ret.b

C13_Iteration ==
    (op.name \in LaneOps /\ pc \in {"k_entry", "o_entry"}) =>
        /\ Len(lookups') = Len(lookups) + 1
        /\ lookups'[Len(lookups')].i \in Candidates
        /\ pc' \in {"k_loop", "o_loop"} =>
              /\ Candidates' = Candidates \ {lookups'[Len(lookups')].i}
              /\ Cardinality(Candidates') = Cardinality(Candidates) - 1

C13_LoopsTerminate ==
    /\ []C13_Measure
    /\ [][C13_Iteration]_vars
    /\ (pc \in InKernel) ~> (pc = "done")

\* a call examined all M lanes, each once, and ended with the set empty
C13_Witness ==
    /\ pc = "done"
    /\ op.name \in LaneOps
    /\ Len(lookups) = M
    /\ Candidates = {}

----------------------------------------------------------------------------
\* C14: in the packet occlusion adapters the set of active ray lanes only
\* shrinks while the triangles of a batch are processed in index order. A lane
\* cleared as occluded by triangle i takes no part in the test of a later
\* triangle, the loop stops as soon as no lane is active or at the first
\* invalid triangle, and the mask returned is the complement of the lanes
\* still active: a lane is reported iff some processed triangle occluded it or
\* it was inactive on entry.

PacketOccludedOps == {"occludedK", "mblur_occludedK"}

\* ray lane k is occluded by a triangle of index below n
OccludedBefore(k, n) ==
    \E l \in 0 .. (n - 1) : l \in CandClosed(k) /\ PolicyOKO(k, l)

C14_ActiveSet ==
    op.name \in PacketOccludedOps =>
        /\ valid0 \subseteq op.valid_i
        /\ i_tri \in 0 .. M
        /\ \A j \in 0 .. (i_tri - 1) : tri.lanes[j].valid
        /\ pc = "pkt_o" =>
              /\ valid0 # {}
              /\ \A k \in op.valid_i : k \notin valid0 <=> OccludedBefore(k, i_tri)
        /\ pc = "done" =>
              /\ ret = RetMask(RayLanes \ valid0)
              /\ \/ valid0 = {}
                 \/ i_tri = M
                 \/ ~tri.lanes[i_tri].valid
              /\ \A k \in RayLanes :
                    k \in ret.mask <=>
                        \/ k \notin op.valid_i
                        \/ OccludedBefore(k, IF valid0 = {} THEN i_tri + 1 ELSE i_tri)

C14_Iteration ==
    (op.name \in PacketOccludedOps /\ pc = "pkt_o") =>
        /\ valid0' \subseteq valid0
        /\ \A n \in (Len(fcalls) + 1) .. Len(fcalls') :
              fcalls'[n].k \in valid0 /\ fcalls'[n].i = i_tri
        /\ pc' = "pkt_o" => (i_tri' = i_tri + 1 /\ valid0' # {})
        /\ pc' = "done" => i_tri' = i_tri

C14_ActiveSetShrinks == []C14_ActiveSet /\ [][C14_Iteration]_vars

\* both ray lanes were active; triangle 0 occluded one of them, the other
\* stayed active and was occluded by a later triangle
C14_Witness ==
    /\ pc = "done"
    /\ op.name \in PacketOccludedOps
    /\ op.valid_i = RayLanes
    /\ ret = RetMask(RayLanes)
    /\ i_tri >= 1
    /\ \E k \in RayLanes : OccludedBefore(k, 1)

----------------------------------------------------------------------------
\* C15: every hit the per-lane intersection kernel commits itself replaces
\* tfar[k] by a value strictly above tnear[k] and strictly below the tfar[k] of
\* entry. Over a sequence of per-lane intersect calls on the same ray lane
\* tfar[k] never increases, tnear[k] < tfar[k] is preserved, and a later call
\* replaces the committed hit only by a strictly nearer one.

C15_CommitInside ==
    /\ \A k \in RayLanes : RatLT(ray[k].tnear, ray[k].tfar)
    /\ \A n \in 1 .. Len(commits) :
          (op.name = "intersect_k" /\ commits[n].by = "kernel") =>
              /\ RatLT(ray0[op.k].tnear, ray[op.k].tfar)
              /\ RatLT(ray[op.k].tfar, ray0[op.k].tfar)

C15_Step ==
    \A k \in RayLanes :
        /\ ray'[k].tnear = ray[k].tnear
        /\ RatLE(ray'[k].tfar, ray[k].tfar)
        /\ HitFields(ray'[k]) # HitFields(ray[k]) => RatLT(ray'[k].tfar, ray[k].tfar)

C15_TfarMonotone == []C15_CommitInside /\ [][C15_Step]_vars

\* a second call on a ray lane that already held a hit has replaced it: the
\* kernel committed a hit of its own below the tfar left by the earlier call
C15_Witness ==
    /\ Done("intersect_k")
    /\ ray0[op.k].geomID # -1
    /\ commits # <<>>
    /\ commits[1].by = "kernel"
    /\ RatLT(ray[op.k].tfar, ray0[op.k].tfar)

====
